---- MODULE Spec2Model ----
(***************************************************************************)
(* Model of the authenticated request lifecycle of the FastAPI template:   *)
(* the users table, the password hasher, the JWT issuer/verifier, the      *)
(* bearer and basic authorization gates and the /auth handlers             *)
(* (register, login, get-self, update-self, admin-list-users,              *)
(* admin-delete-user), and of the example entity: its schemas, its table   *)
(* and the /examples handlers (create, read-one, read-many, update,        *)
(* delete).  The session a request holds, from the entry of get_session    *)
(* to its exit, has a specification of its own.                            *)
(*                                                                         *)
(* Strings are sequences of one-character strings, so that lower-casing,   *)
(* e-mail normalisation and the validators are computed, not assumed.      *)
(* A Python Optional value is a set: {} is None and {v} is the value v.    *)
(* Time is counted in whole days.                                          *)
(***************************************************************************)
EXTENDS Integers, Sequences, FiniteSets, TLC

VARIABLES
    users,      \* the rows of the users table (committed state)
    nextId,     \* the next value uuid4() returns (fresh identifiers)
    now,        \* datetime.utcnow(), in days
    issued,     \* tokens that were issued, each with the row, lifetime and time of issue
    deleted,    \* identifiers whose admin-delete-user request returned 204
    entities,   \* the rows of the example_entities table (committed state)
    created,    \* the entities create returned, in the order it returned them
    reqs,       \* the requests in flight, one per slot
    last        \* the response emitted by the latest step, if it emitted one

vars == <<users, nextId, now, issued, deleted, entities, created, reqs, last>>

----------------------------------------------------------------------------
(* Bounds of the model *)

MaxIds == 2
MaxTicks == 2
MaxTokens == 2
MaxSlots == 2

----------------------------------------------------------------------------
(* Program constants *)

ACCESS_TOKEN_EXPIRE_DAYS == 30
DefaultExpireDays == 30
UsernameMinLength == 3
UsernameMaxLength == 50
PasswordMinLength == 8
PasswordMaxLength == 100
NameMinLength == 1
NameMaxLength == 100
DescriptionMaxLength == 500
DefaultPage == 1
DefaultSize == 50
MaxSize == 100

SECRET_KEY == "your-secret-key"
OtherKey == "not-the-secret-key"

----------------------------------------------------------------------------
(* Characters and strings *)

Lowers == {"a", "b", "d", "e", "i", "n", "o", "p", "r", "s", "t", "w", "x"}
Uppers == {"A", "B", "P", "S", "X"}
Digits == {"0", "1", "3"}

LowerChar(c) ==
    CASE c = "A" -> "a"
      [] c = "B" -> "b"
      [] c = "P" -> "p"
      [] c = "S" -> "s"
      [] c = "X" -> "x"
      [] OTHER -> c

\* str.lower()
Lower(s) == [i \in DOMAIN s |-> LowerChar(s[i])]

\* str.replace(c, '')
RECURSIVE Remove(_, _)
Remove(s, c) ==
    IF s = <<>> THEN <<>>
    ELSE IF Head(s) = c THEN Remove(Tail(s), c)
    ELSE <<Head(s)>> \o Remove(Tail(s), c)

\* str.isalnum(): non-empty and every character a letter or a digit
IsAlnum(s) == s # <<>> /\ \A i \in DOMAIN s : s[i] \in Lowers \cup Uppers \cup Digits

Some(v) == {v}
NoneV == {}
The(o) == CHOOSE v \in o : TRUE

----------------------------------------------------------------------------
(* Validation schemas (pydantic) *)

\* UserBase.username: Field(min_length=3, max_length=50)
UsernameLengthOk(v) == Len(v) >= UsernameMinLength /\ Len(v) <= UsernameMaxLength

\* UserBase.username_alphanumeric: the check
UsernameCharsOk(v) == IsAlnum(Remove(Remove(Remove(v, "_"), "-"), "."))

\* username_alphanumeric returning the value as typed
username_as_typed(v) == v

\* UserBase.username_alphanumeric: the value it returns (v.lower())
username_alphanumeric(v) == Lower(v)

AtPositions(s) == {i \in DOMAIN s : s[i] = "@"}
AtIndex(s) == CHOOSE i \in AtPositions(s) : TRUE
LocalPart(s) == SubSeq(s, 1, AtIndex(s) - 1)
DomainPart(s) == SubSeq(s, AtIndex(s) + 1, Len(s))

\* EmailStr: one @ between a non-empty local part and a dotted domain
EmailOk(s) ==
    /\ Cardinality(AtPositions(s)) = 1
    /\ LocalPart(s) # <<>>
    /\ \E i \in DOMAIN DomainPart(s) :
          /\ DomainPart(s)[i] = "."
          /\ i > 1
          /\ i < Len(DomainPart(s))

\* EmailStr: the normalised address (the domain lower-cased, the local part kept)
EmailStr(s) == LocalPart(s) \o <<"@">> \o Lower(DomainPart(s))

\* UserCreate.password: Field(min_length=8, max_length=100)
PasswordLengthOk(v) == Len(v) >= PasswordMinLength /\ Len(v) <= PasswordMaxLength

\* UserCreate.password_strength
password_strength(v) ==
    /\ \E i \in DOMAIN v : v[i] \in Uppers
    /\ \E i \in DOMAIN v : v[i] \in Lowers
    /\ \E i \in DOMAIN v : v[i] \in Digits

\* UserCreate: does the body validate
UserCreateOk(body) ==
    /\ UsernameLengthOk(body.username)
    /\ UsernameCharsOk(body.username)
    /\ EmailOk(body.email)
    /\ PasswordLengthOk(body.password)
    /\ password_strength(body.password)

\* UserCreate: the validated model
UserCreate(body) ==
    [username |-> username_alphanumeric(body.username),
     email |-> EmailStr(body.email),
     password |-> body.password]

\* UserUpdate accepting fields it does not declare
UserUpdateOkExtra(payload) ==
    /\ "email" \in DOMAIN payload =>
          \A e \in payload["email"] : EmailOk(e)
    /\ "password" \in DOMAIN payload =>
          \A p \in payload["password"] : PasswordLengthOk(p)

\* UserUpdate: every field optional; a payload is a function from the fields
\* that are present to Optional values
UserUpdateOk(payload) ==
    /\ DOMAIN payload \subseteq {"email", "password", "is_active"}
    /\ "email" \in DOMAIN payload =>
          \A e \in payload["email"] : EmailOk(e)
    /\ "password" \in DOMAIN payload =>
          \A p \in payload["password"] : PasswordLengthOk(p)

\* UserUpdate.model_dump(exclude_unset=True)
UserUpdateDump(payload) ==
    [f \in DOMAIN payload |->
        IF f = "email" THEN {EmailStr(e) : e \in payload[f]} ELSE payload[f]]

----------------------------------------------------------------------------
(* Password hasher (passlib CryptContext, bcrypt) *)

Salts == {"s1"}

hash_password(password, salt) ==
    [scheme |-> "bcrypt", salt |-> salt, digest |-> <<salt, password>>]

\* pwd_context.verify raises for a digest of no known scheme
VerifyRaises(hashed_password) == hashed_password.scheme # "bcrypt"

verify_password(plain_password, hashed_password) ==
    /\ hashed_password.scheme = "bcrypt"
    /\ hashed_password.digest = <<hashed_password.salt, plain_password>>

----------------------------------------------------------------------------
(* Token issuer / verifier (python-jose, HS256) *)

\* jwt.encode: the signature binds the key to the claims
Sign(key, sub, exp) == <<key, sub, exp>>

\* `if expires_delta:` a timedelta is truthy unless it is None or zero
Truthy(expires_delta) == expires_delta # NoneV /\ The(expires_delta) # 0

create_access_token(sub, expires_delta, t) ==
    LET expire == IF Truthy(expires_delta)
                  THEN t + The(expires_delta)
                  ELSE t + DefaultExpireDays
    IN  [sub |-> sub, exp |-> expire, sig |-> Sign(SECRET_KEY, sub, expire)]

\* jwt.decode rejecting a token from its expiry time on
JwtDecodeOkStrict(token, t) ==
    /\ token.sig = Sign(SECRET_KEY, token.sub, token.exp)
    /\ ~(token.exp <= t)

\* jwt.decode succeeds: the signature verifies and the token is not expired
\* (jose raises ExpiredSignatureError when exp < now)
JwtDecodeOk(token, t) ==
    /\ token.sig = Sign(SECRET_KEY, token.sub, token.exp)
    /\ ~(token.exp < t)

decode_access_token(token, t) ==
    IF JwtDecodeOk(token, t) THEN token.sub ELSE NoneV

----------------------------------------------------------------------------
(* The users table *)

\* UserModel: a row
UserRow(id, username, email, hashed_password, is_active, is_superuser, created_at) ==
    [id |-> id, username |-> username, email |-> email,
     hashed_password |-> hashed_password, is_active |-> is_active,
     is_superuser |-> is_superuser, created_at |-> created_at]

\* a table without the unique constraints
InsertViolatesNothing(store, row) == FALSE

\* unique=True on id, username and email: would inserting `row` violate one
InsertViolatesUnique(store, row) ==
    \E u \in store :
        \/ u.id = row.id
        \/ u.username = row.username
        \/ u.email = row.email

\* unique=True: would the updated `row` collide with another row
UpdateViolatesUnique(store, row) ==
    \E u \in store :
        /\ u.id # row.id
        /\ (u.username = row.username \/ u.email = row.email)

\* result.scalars().first(): None, or one of the matching rows
First(matches) ==
    IF matches = {} THEN {NoneV} ELSE {Some(u) : u \in matches}

\* UserOut carrying the stored hash
UserOutWithHash(u) ==
    [id |-> u.id,
     username |-> username_alphanumeric(u.username),
     email |-> EmailStr(u.email),
     hashed_password |-> u.hashed_password,
     is_active |-> u.is_active,
     is_superuser |-> u.is_superuser,
     created_at |-> u.created_at]

\* UserOut.model_validate(user): the password is not a field of UserOut
UserOut(u) ==
    [id |-> u.id,
     username |-> username_alphanumeric(u.username),
     email |-> EmailStr(u.email),
     is_active |-> u.is_active,
     is_superuser |-> u.is_superuser,
     created_at |-> u.created_at]

----------------------------------------------------------------------------
(* Authorization gates.  A gate's outcome is a record: status 200 with the *)
(* resolved user, or the HTTPException it raises.                          *)

Allow(user) == [status |-> 200, detail |-> "", user |-> Some(user)]
Deny(status, detail) == [status |-> status, detail |-> detail, user |-> NoneV]

\* select(UserModel).filter_by(username=username)
ByUsername(store, username) == {u \in store : u.username = username}

\* select(UserModel).filter((username == x) | (email == x))
ByUsernameOrEmail(store, x) == {u \in store : u.username = x \/ u.email = x}

\* get_current_user without the is_active check
get_current_user_no_active_check(token, t, user) ==
    IF decode_access_token(token, t) = NoneV
    THEN Deny(401, "Invalid or expired token")
    ELSE IF user = NoneV
    THEN Deny(401, "User not found")
    ELSE Allow(The(user))

\* get_current_user, given the row .first() returned
get_current_user(token, t, user) ==
    IF decode_access_token(token, t) = NoneV
    THEN Deny(401, "Invalid or expired token")
    ELSE IF user = NoneV
    THEN Deny(401, "User not found")
    ELSE IF ~The(user).is_active
    THEN Deny(403, "Inactive user account")
    ELSE Allow(The(user))

\* the rows get_current_user's query matches (nothing is queried when the
\* token does not decode)
BearerMatches(store, token, t) ==
    IF decode_access_token(token, t) = NoneV
    THEN {}
    ELSE ByUsername(store, The(decode_access_token(token, t)))

\* require_admin that ignores is_superuser
require_admin_anyone(gate) == gate

\* require_admin / require_admin_basic, applied to a gate's outcome
require_admin(gate) ==
    IF gate.status # 200 THEN gate
    ELSE IF ~The(gate.user).is_superuser
    THEN Deny(403, "Admin privileges required")
    ELSE gate

\* get_current_user_basic, given the row .first() returned
get_current_user_basic(credentials, user) ==
    IF user = NoneV
    THEN Deny(401, "Incorrect username or password")
    ELSE IF VerifyRaises(The(user).hashed_password)
    THEN Deny(500, "Internal Server Error")
    ELSE IF ~verify_password(credentials.password, The(user).hashed_password)
    THEN Deny(401, "Incorrect username or password")
    ELSE IF ~The(user).is_active
    THEN Deny(403, "Inactive user account")
    ELSE Allow(The(user))

\* login's checks with the is_active check made before the password check
login_check_active_first(credentials, user) ==
    IF user = NoneV
    THEN Deny(401, "Incorrect username or password")
    ELSE IF ~The(user).is_active
    THEN Deny(403, "User account is inactive")
    ELSE IF ~verify_password(credentials.password, The(user).hashed_password)
    THEN Deny(401, "Incorrect username or password")
    ELSE Allow(The(user))

\* login's checks, given the row .first() returned
login_check(credentials, user) ==
    IF user = NoneV
    THEN Deny(401, "Incorrect username or password")
    ELSE IF VerifyRaises(The(user).hashed_password)
    THEN Deny(500, "Internal Server Error")
    ELSE IF ~verify_password(credentials.password, The(user).hashed_password)
    THEN Deny(401, "Incorrect username or password")
    ELSE IF ~The(user).is_active
    THEN Deny(403, "User account is inactive")
    ELSE Allow(The(user))

----------------------------------------------------------------------------
(* Inputs *)

ann == <<"a", "n", "n">>
Ann == <<"A", "n", "n">>
bob == <<"b", "o", "b">>
root == <<"r", "o", "o", "t">>
tooShort == <<"a", "n">>

annMail == <<"a", "@", "x", ".", "i", "o">>
AnnMail == <<"A", "@", "x", ".", "i", "o">>
bobMail == <<"b", "@", "x", ".", "i", "o">>
rootMail == <<"r", "@", "x", ".", "i", "o">>
notMail == <<"a", "x", ".", "i", "o">>

pw1 == <<"P", "a", "s", "s", "w", "0", "r", "d">>
pw2 == <<"P", "a", "s", "s", "w", "0", "r", "d", "1">>
weakPw == <<"p", "a", "s", "s", "w", "o", "r", "d">>

nameAb == <<"A", "b">>
nameBa == <<"b", "a">>
namePadded == <<" ", "b", "a", " ">>
blank == <<" ">>
descr == <<"d">>

\* a path segment that is not a UUID
BadId == 0 - 1

Slots == 1 .. MaxSlots
Ids == 0 .. MaxIds

\* a token a login at time t0 returns to the user named n
LoginToken(n, t0) ==
    create_access_token(Some(n), Some(ACCESS_TOKEN_EXPIRE_DAYS), t0)

\* tokens nobody issued: a wrong signature, a tampered subject, no subject
OddTokens ==
    {[sub |-> Some(root), exp |-> ACCESS_TOKEN_EXPIRE_DAYS,
      sig |-> Sign(OtherKey, Some(root), ACCESS_TOKEN_EXPIRE_DAYS)],
     [sub |-> Some(root), exp |-> 1, sig |-> Sign(SECRET_KEY, Some(ann), 1)],
     [sub |-> NoneV, exp |-> 1, sig |-> Sign(SECRET_KEY, NoneV, 1)]}

----------------------------------------------------------------------------
(* State *)

Idle == [op |-> "idle", pc |-> "idle"]
NoResp == [op |-> "none"]

\* a response, with what the claims need to know about the step that emitted it
Resp(op, status, detail, input, user, body) ==
    [op |-> op, status |-> status, detail |-> detail, input |-> input,
     pre |-> users, at |-> now, user |-> user, body |-> body]

\* the administrator's row: no handler sets is_superuser, so an administrator
\* is a row written to the table directly, before the service takes requests
adminRow == UserRow(0, root, rootMail, hash_password(pw1, "s1"), TRUE, TRUE, 0)

Init ==
    /\ users = {adminRow}
    /\ nextId = 1
    /\ now = 0
    /\ issued = {}
    /\ deleted = {}
    /\ entities = {}
    /\ created = <<>>
    /\ reqs = [s \in Slots |-> Idle]
    /\ last = NoResp

\* the least number of clock steps that reach time t
TicksTo(t) == (t \div ACCESS_TOKEN_EXPIRE_DAYS) + (t % ACCESS_TOKEN_EXPIRE_DAYS)

\* the clock advances by a day or by a token lifetime
Tick ==
    /\ \E d \in {1, ACCESS_TOKEN_EXPIRE_DAYS} :
          /\ TicksTo(now + d) <= MaxTicks
          /\ now' = now + d
    /\ UNCHANGED <<users, nextId, issued, deleted, reqs, last, entities, created>>

\* the response reaches the client
Deliver ==
    /\ last # NoResp
    /\ last' = NoResp
    /\ UNCHANGED <<users, nextId, now, issued, deleted, reqs, entities, created>>

Finish(s, resp) ==
    /\ reqs' = [reqs EXCEPT ![s] = Idle]
    /\ last' = resp

Continue(s, r) ==
    /\ reqs' = [reqs EXCEPT ![s] = r]
    /\ last' = NoResp

----------------------------------------------------------------------------
(* POST /auth/register *)

InFlight(op) == {s \in Slots : reqs[s].op = op}

\* body validation, then the username pre-check
RegisterStart(s, body) ==
    /\ reqs[s] = Idle
    /\ nextId + Cardinality(InFlight("register")) <= MaxIds
    /\ IF ~UserCreateOk(body)
       THEN Finish(s, Resp("register", 422, "validation error", body, NoneV, NoneV))
       ELSE \E found \in First(ByUsername(users, UserCreate(body).username)) :
              IF found # NoneV
              THEN Finish(s, Resp("register", 409, "Username already exists",
                                  body, NoneV, NoneV))
              ELSE Continue(s, [op |-> "register", pc |-> "check_email",
                                body |-> body, user_in |-> UserCreate(body)])
    /\ UNCHANGED <<users, nextId, now, issued, deleted, entities, created>>

\* the e-mail pre-check
RegisterCheckEmail(s) ==
    /\ reqs[s].op = "register"
    /\ reqs[s].pc = "check_email"
    /\ \E found \in First({u \in users : u.email = reqs[s].user_in.email}) :
          IF found # NoneV
          THEN Finish(s, Resp("register", 409, "Email already registered",
                              reqs[s].body, NoneV, NoneV))
          ELSE Continue(s, [reqs[s] EXCEPT !.pc = "commit"])
    /\ UNCHANGED <<users, nextId, now, issued, deleted, entities, created>>

\* UserModel(...), add, commit, refresh; IntegrityError -> rollback, 409
RegisterCommit(s) ==
    /\ reqs[s].op = "register"
    /\ reqs[s].pc = "commit"
    /\ \E salt \in Salts :
          LET user_in == reqs[s].user_in
              user_model == UserRow(nextId, user_in.username, user_in.email,
                                    hash_password(user_in.password, salt),
                                    TRUE, FALSE, now)
          IN  IF InsertViolatesUnique(users, user_model)
              THEN /\ users' = users
                   /\ Finish(s, Resp("register", 409, "Username or email already exists",
                                     reqs[s].body, NoneV, NoneV))
              ELSE /\ users' = users \cup {user_model}
                   /\ Finish(s, Resp("register", 201, "", reqs[s].body, NoneV,
                                     Some(UserOut(user_model))))
    /\ nextId' = nextId + 1
    /\ UNCHANGED <<now, issued, deleted, entities, created>>

----------------------------------------------------------------------------
(* POST /auth/login *)

\* `track`: whether the returned token is recorded in `issued`
Login(credentials, track) ==
    /\ \E user \in First(ByUsernameOrEmail(users, credentials.username)) :
          LET check == login_check(credentials, user)
              access_token == create_access_token(
                                  Some(The(user).username),
                                  Some(ACCESS_TOKEN_EXPIRE_DAYS), now)
              grant == [token |-> access_token, uid |-> Some(The(user).id),
                        ttl |-> Some(ACCESS_TOKEN_EXPIRE_DAYS), at |-> now]
          IN  IF check.status # 200
              THEN /\ issued' = issued
                   /\ last' = Resp("login", check.status, check.detail,
                                   credentials, user, NoneV)
              ELSE /\ track => (grant \in issued \/ Cardinality(issued) < MaxTokens)
                   /\ issued' = IF track THEN issued \cup {grant} ELSE issued
                   /\ last' = Resp("login", 200, "", credentials, user,
                                   Some([access_token |-> access_token,
                                         token_type |-> "bearer"]))
    /\ UNCHANGED <<users, nextId, now, deleted, reqs, entities, created>>

----------------------------------------------------------------------------
(* GET /auth/me *)

GetMe(token) ==
    /\ \E user \in First(BearerMatches(users, token, now)) :
          LET gate == get_current_user(token, now, user)
          IN  last' = Resp("get_me", gate.status, gate.detail, token, gate.user,
                           IF gate.status = 200
                           THEN Some(UserOut(The(gate.user))) ELSE NoneV)
    /\ UNCHANGED <<users, nextId, now, issued, deleted, reqs, entities, created>>

----------------------------------------------------------------------------
(* A route behind the basic gate (CurrentUserBasic / require_admin_basic) *)

BasicRequest(credentials, admin_only) ==
    /\ \E user \in First(ByUsernameOrEmail(users, credentials.username)) :
          LET basic == get_current_user_basic(credentials, user)
              gate == IF admin_only THEN require_admin(basic) ELSE basic
          IN  last' = Resp(IF admin_only THEN "basic_admin" ELSE "basic",
                           gate.status, gate.detail, credentials, user, NoneV)
    /\ UNCHANGED <<users, nextId, now, issued, deleted, reqs, entities, created>>

----------------------------------------------------------------------------
(* PATCH /auth/me *)

\* the bearer gate runs first, then the body is validated
UpdateMeGate(s, token, payload) ==
    /\ reqs[s] = Idle
    /\ \E user \in First(BearerMatches(users, token, now)) :
          LET gate == get_current_user(token, now, user)
              input == [token |-> token, payload |-> payload]
          IN  IF gate.status # 200
              THEN Finish(s, Resp("update_me", gate.status, gate.detail,
                                  input, gate.user, NoneV))
              ELSE IF ~UserUpdateOk(payload)
              THEN Finish(s, Resp("update_me", 422, "validation error",
                                  input, gate.user, NoneV))
              ELSE Continue(s, [op |-> "update_me", pc |-> "commit",
                                input |-> input,
                                current_user |-> The(gate.user),
                                update_data |-> UserUpdateDump(payload)])
    /\ UNCHANGED <<users, nextId, now, issued, deleted, entities, created>>

\* the attribute values the handler sets on current_user
SetAttrs(update_data, salt) ==
    [f \in (DOMAIN update_data \ {"password"})
           \cup (IF "password" \in DOMAIN update_data THEN {"hashed_password"} ELSE {}) |->
        IF f = "hashed_password"
        THEN {hash_password(p, salt) : p \in update_data["password"]}
        ELSE update_data[f]]

\* the attributes whose value differs from the loaded one: the UPDATE's columns
Dirty(current_user, attrs) ==
    {f \in DOMAIN attrs : attrs[f] # Some(current_user[f])}

\* the row after the UPDATE (None written as the loaded value is kept apart by
\* NullWritten)
Updated(row, attrs, dirty) ==
    [f \in DOMAIN row |->
        IF f \in dirty /\ attrs[f] # NoneV THEN The(attrs[f]) ELSE row[f]]

\* nullable=False: does the UPDATE write NULL
NullWritten(attrs, dirty) == \E f \in dirty : attrs[f] = NoneV

\* hash, setattr, commit, refresh; IntegrityError -> rollback, 409;
\* any other exception -> rollback, 500
UpdateMeCommit(s) ==
    /\ reqs[s].op = "update_me"
    /\ reqs[s].pc = "commit"
    /\ \E salt \in Salts :
          LET r == reqs[s]
              data == r.update_data
              attrs == SetAttrs(data, salt)
              dirty == Dirty(r.current_user, attrs)
              rows == {u \in users : u.id = r.current_user.id}
              row == CHOOSE u \in rows : TRUE
              new == Updated(row, attrs, dirty)
              fail(status, detail) ==
                  /\ users' = users
                  /\ Finish(s, Resp("update_me", status, detail, r.input,
                                    Some(r.current_user), NoneV))
          IN  IF "password" \in DOMAIN data /\ data["password"] = NoneV
              THEN fail(500, "An error occurred while updating user")
              ELSE IF rows = {}
              THEN fail(500, "An error occurred while updating user")
              ELSE IF NullWritten(attrs, dirty) \/ UpdateViolatesUnique(users, new)
              THEN fail(409, "Email already in use")
              ELSE /\ users' = (users \ rows) \cup {new}
                   /\ Finish(s, Resp("update_me", 200, "", r.input,
                                     Some(r.current_user), Some(UserOut(new))))
    /\ UNCHANGED <<nextId, now, issued, deleted, entities, created>>

----------------------------------------------------------------------------
(* GET /auth/users (admin only) *)

ListUsersGate(s, token) ==
    /\ reqs[s] = Idle
    /\ \E user \in First(BearerMatches(users, token, now)) :
          LET bearer == get_current_user(token, now, user)
              gate == require_admin(bearer)
          IN  IF gate.status # 200
              THEN Finish(s, Resp("list_users", gate.status, gate.detail,
                                  token, bearer.user, NoneV))
              ELSE Continue(s, [op |-> "list_users", pc |-> "query",
                                input |-> token, admin |-> The(gate.user)])
    /\ UNCHANGED <<users, nextId, now, issued, deleted, entities, created>>

\* the query without filters; the page holds every row's UserOut
ListUsersQuery(s) ==
    /\ reqs[s].op = "list_users"
    /\ reqs[s].pc = "query"
    /\ Finish(s, Resp("list_users", 200, "", reqs[s].input, Some(reqs[s].admin),
                      Some({UserOut(u) : u \in users})))
    /\ UNCHANGED <<users, nextId, now, issued, deleted, entities, created>>

----------------------------------------------------------------------------
(* DELETE /auth/users/{user_id} (admin only) *)

\* the gate, then the self-deletion check
DeleteUserGate(s, token, user_id) ==
    /\ reqs[s] = Idle
    /\ \E user \in First(BearerMatches(users, token, now)) :
          LET bearer == get_current_user(token, now, user)
              gate == require_admin(bearer)
              input == [token |-> token, user_id |-> user_id]
          IN  IF gate.status # 200
              THEN Finish(s, Resp("delete_user", gate.status, gate.detail,
                                  input, bearer.user, NoneV))
              ELSE IF user_id = The(gate.user).id
              THEN Finish(s, Resp("delete_user", 403, "Cannot delete your own account",
                                  input, gate.user, NoneV))
              ELSE Continue(s, [op |-> "delete_user", pc |-> "lookup",
                                input |-> input, admin |-> The(gate.user)])
    /\ UNCHANGED <<users, nextId, now, issued, deleted, entities, created>>

\* select(UserModel).filter_by(id=user_id)
DeleteUserLookup(s) ==
    /\ reqs[s].op = "delete_user"
    /\ reqs[s].pc = "lookup"
    /\ \E user \in First({u \in users : u.id = reqs[s].input.user_id}) :
          IF user = NoneV
          THEN Finish(s, Resp("delete_user", 404, "User not found",
                              reqs[s].input, Some(reqs[s].admin), NoneV))
          ELSE Continue(s, [op |-> "delete_user", pc |-> "delete",
                            input |-> reqs[s].input, admin |-> reqs[s].admin,
                            user |-> The(user)])
    /\ UNCHANGED <<users, nextId, now, issued, deleted, entities, created>>

\* delete_user answering 204 without deleting the row
DeleteUserCommitNothing(s) ==
    /\ reqs[s].op = "delete_user"
    /\ reqs[s].pc = "delete"
    /\ users' = users
    /\ deleted' = deleted \cup {reqs[s].user.id}
    /\ Finish(s, Resp("delete_user", 204, "", reqs[s].input,
                      Some(reqs[s].admin), NoneV))
    /\ UNCHANGED <<nextId, now, issued, entities, created>>

\* db_session.delete(user), commit
DeleteUserCommit(s) ==
    /\ reqs[s].op = "delete_user"
    /\ reqs[s].pc = "delete"
    /\ users' = {u \in users : u.id # reqs[s].user.id}
    /\ deleted' = deleted \cup {reqs[s].user.id}
    /\ Finish(s, Resp("delete_user", 204, "", reqs[s].input,
                      Some(reqs[s].admin), NoneV))
    /\ UNCHANGED <<nextId, now, issued, entities, created>>

----------------------------------------------------------------------------
(* Example entity: validation schemas (pydantic) *)

\* str_strip_whitespace=True: leading and trailing blanks are removed
RECURSIVE StripLeft(_)
StripLeft(s) ==
    IF s # <<>> /\ Head(s) = " " THEN StripLeft(Tail(s)) ELSE s

RECURSIVE StripRight(_)
StripRight(s) ==
    IF s # <<>> /\ s[Len(s)] = " " THEN StripRight(SubSeq(s, 1, Len(s) - 1)) ELSE s

Strip(s) == StripRight(StripLeft(s))

\* the fields of ExampleEntity; a body or payload is a function from the
\* fields that are present to Optional values (JSON null is None)
EntityFields == {"name", "description", "value", "is_active"}

\* the columns declared nullable=True
EntityNullable == {"description", "value"}

\* name: Field(min_length=1, max_length=100), after stripping
EntityNameOk(v) ==
    Len(Strip(v)) >= NameMinLength /\ Len(Strip(v)) <= NameMaxLength

\* description: Field(max_length=500)
EntityDescriptionOk(v) == Len(Strip(v)) <= DescriptionMaxLength

\* value: PositiveFloat
EntityValueOk(v) == v > 0

\* ExampleEntityIn: does the body validate (extra='forbid'; name required)
ExampleEntityInOk(body) ==
    /\ DOMAIN body \subseteq EntityFields
    /\ "name" \in DOMAIN body
    /\ body["name"] # NoneV
    /\ \A v \in body["name"] : EntityNameOk(v)
    /\ "description" \in DOMAIN body =>
          \A v \in body["description"] : EntityDescriptionOk(v)
    /\ "value" \in DOMAIN body => \A v \in body["value"] : EntityValueOk(v)
    /\ "is_active" \in DOMAIN body => body["is_active"] # NoneV

\* ExampleEntityIn(...).model_dump(): every field, absent ones at their default
ExampleEntityIn(body) ==
    [name |-> Strip(The(body["name"])),
     description |-> IF "description" \in DOMAIN body
                     THEN {Strip(v) : v \in body["description"]} ELSE NoneV,
     value |-> IF "value" \in DOMAIN body THEN body["value"] ELSE NoneV,
     is_active |-> IF "is_active" \in DOMAIN body
                   THEN The(body["is_active"]) ELSE TRUE]

\* ExampleEntityUpdate accepting fields it does not declare
ExampleEntityUpdateOkExtra(payload) ==
    /\ "name" \in DOMAIN payload => \A v \in payload["name"] : EntityNameOk(v)
    /\ "description" \in DOMAIN payload =>
          \A v \in payload["description"] : EntityDescriptionOk(v)
    /\ "value" \in DOMAIN payload => \A v \in payload["value"] : EntityValueOk(v)

\* ExampleEntityUpdate: does the payload validate (extra='forbid'; every
\* field optional and nullable)
ExampleEntityUpdateOk(payload) ==
    /\ DOMAIN payload \subseteq EntityFields
    /\ "name" \in DOMAIN payload => \A v \in payload["name"] : EntityNameOk(v)
    /\ "description" \in DOMAIN payload =>
          \A v \in payload["description"] : EntityDescriptionOk(v)
    /\ "value" \in DOMAIN payload => \A v \in payload["value"] : EntityValueOk(v)

\* model_dump() without exclude_unset: absent fields at their default, None
ExampleEntityUpdateDumpAll(payload) ==
    [f \in DOMAIN payload \cup EntityFields |->
        IF f \notin DOMAIN payload THEN NoneV
        ELSE IF f \in {"name", "description"}
        THEN {Strip(v) : v \in payload[f]} ELSE payload[f]]

\* model_dump(exclude_none=True): the fields sent as null dropped
ExampleEntityUpdateDumpExcludeNone(payload) ==
    [f \in {g \in DOMAIN payload : payload[g] # NoneV} |->
        IF f \in {"name", "description"}
        THEN {Strip(v) : v \in payload[f]} ELSE payload[f]]

\* ExampleEntityUpdate(...).model_dump(exclude_unset=True)
ExampleEntityUpdateDump(payload) ==
    [f \in DOMAIN payload |->
        IF f \in {"name", "description"}
        THEN {Strip(v) : v \in payload[f]} ELSE payload[f]]

\* entity_id: UUID4 (a path segment that is not a UUID is written as a
\* negative number)
IsUuid(entity_id) == entity_id >= 0

\* ExampleEntityOut.model_validate(entity)
ExampleEntityOut(e) ==
    [id |-> e.id, created_at |-> e.created_at, name |-> e.name,
     description |-> e.description, value |-> e.value, is_active |-> e.is_active]

----------------------------------------------------------------------------
(* Example entity: the table and its queries *)

\* ExampleEntityModel(**entity_out.model_dump()): a row
ExampleEntityModel(dump) ==
    [id |-> dump.id, created_at |-> dump.created_at, name |-> dump.name,
     description |-> dump.description, value |-> dump.value,
     is_active |-> dump.is_active]

\* BaseModel.id unique=True: would inserting `row` violate it
EntityInsertViolatesUnique(store, row) == \E e \in store : e.id = row.id

\* select(ExampleEntityModel).filter_by(id=entity_id)
EntityById(store, entity_id) == {e \in store : e.id = entity_id}

\* the attribute values of a loaded row, as Optional values
EntityLoaded(row) ==
    [id |-> Some(row.id), created_at |-> Some(row.created_at),
     name |-> Some(row.name), description |-> row.description,
     value |-> row.value, is_active |-> Some(row.is_active)]

\* setattr(entity, field, value): the attributes whose value differs from the
\* loaded one, which are the columns of the UPDATE
EntityDirty(loaded, update_data) ==
    {f \in DOMAIN update_data : update_data[f] # EntityLoaded(loaded)[f]}

\* nullable=False: does the UPDATE write NULL into such a column
EntityNullWritten(update_data, dirty) ==
    \E f \in dirty : f \notin EntityNullable /\ update_data[f] = NoneV

\* the stored row after the UPDATE of the dirty columns
EntityUpdated(row, update_data, dirty) ==
    [f \in DOMAIN row |->
        IF f \notin dirty THEN row[f]
        ELSE IF f \in EntityNullable THEN update_data[f]
        ELSE The(update_data[f])]

\* SQL LIKE: % matches any run of characters, _ any one character
RECURSIVE Like(_, _)
Like(pattern, s) ==
    IF pattern = <<>> THEN s = <<>>
    ELSE IF Head(pattern) = "%"
    THEN Like(Tail(pattern), s) \/ (s # <<>> /\ Like(pattern, Tail(s)))
    ELSE /\ s # <<>>
         /\ (Head(pattern) = "_" \/ Head(pattern) = Head(s))
         /\ Like(Tail(pattern), Tail(s))

\* column.ilike(pattern)
ILike(pattern, s) == Like(Lower(pattern), Lower(s))

\* `if name:` a string is truthy unless it is None or empty
TruthyStr(name) == name # NoneV /\ The(name) # <<>>

\* the filters of get_all_entities
EntityMatches(store, name, is_active) ==
    {e \in store :
        /\ TruthyStr(name) => ILike(<<"%">> \o The(name) \o <<"%">>, e.name)
        /\ is_active # NoneV => e.is_active = The(is_active)}

\* order_by(created_at.desc()): the orders the database may return the rows
\* in; rows with equal created_at come in any order
OrderedByCreatedDesc(rows) ==
    {q \in [1 .. Cardinality(rows) -> rows] :
        /\ \A i, j \in DOMAIN q : i # j => q[i] # q[j]
        /\ \A i, j \in DOMAIN q : i < j => q[i].created_at >= q[j].created_at}

\* fastapi_pagination Params: page >= 1, 1 <= size <= 100
PageParamsOk(page, size) ==
    /\ \A p \in page : p >= 1
    /\ \A z \in size : z >= 1 /\ z <= MaxSize

\* paginate counting pages from zero
paginate_from_zero(items, page, size) ==
    LET p == IF page = NoneV THEN DefaultPage ELSE The(page)
        z == IF size = NoneV THEN DefaultSize ELSE The(size)
        first == p * z + 1
        final == IF (p + 1) * z < Len(items) THEN (p + 1) * z ELSE Len(items)
    IN  [items |-> SubSeq(items, first, final), total |-> Len(items),
         page |-> p, size |-> z]

\* paginate(items) under the request's page and size
paginate(items, page, size) ==
    LET p == IF page = NoneV THEN DefaultPage ELSE The(page)
        z == IF size = NoneV THEN DefaultSize ELSE The(size)
        first == (p - 1) * z + 1
        final == IF p * z < Len(items) THEN p * z ELSE Len(items)
    IN  [items |-> SubSeq(items, first, final), total |-> Len(items),
         page |-> p, size |-> z]

----------------------------------------------------------------------------
(* Example entity: the /examples handlers *)

\* uuid4() handing out again an identifier that no stored row has
uuid4_reused ==
    CHOOSE n \in 0 .. nextId :
        /\ n \notin {u.id : u \in users} \cup {e.id : e \in entities}
        /\ \A m \in 0 .. (n - 1) :
              m \in {u.id : u \in users} \cup {e.id : e \in entities}

\* uuid4(): an identifier never returned before
uuid4 == nextId

\* a response of an /examples handler: `cause` is the exception the detail
\* reports, `pre` the table when the request arrived, `wrote` whether the
\* request committed a write
EResp(op, status, cause, input, pre, body, wrote) ==
    [op |-> op, status |-> status, cause |-> cause, input |-> input,
     pre |-> pre, at |-> now, body |-> body, wrote |-> wrote]

\* POST /examples/: validation, then ExampleEntityOut(id=uuid4(),
\* created_at=utcnow(), ...), add, commit; IntegrityError -> rollback, 409
CreateEntity(body) ==
    /\ IF ~ExampleEntityInOk(body)
       THEN /\ last' = EResp("create_entity", 422, "validation", body, entities, NoneV, FALSE)
            /\ UNCHANGED <<entities, created, nextId>>
       ELSE /\ nextId <= MaxIds
            /\ nextId' = nextId + 1
            /\ LET entity_in == ExampleEntityIn(body)
                   entity_out == ExampleEntityOut(
                                     [id |-> uuid4, created_at |-> now,
                                      name |-> entity_in.name,
                                      description |-> entity_in.description,
                                      value |-> entity_in.value,
                                      is_active |-> entity_in.is_active])
                   entity_model == ExampleEntityModel(entity_out)
               IN  IF EntityInsertViolatesUnique(entities, entity_model)
                   THEN /\ last' = EResp("create_entity", 409, "UniqueViolation", body, entities,
                                         NoneV, FALSE)
                        /\ UNCHANGED <<entities, created>>
                   ELSE /\ entities' = entities \cup {entity_model}
                        /\ created' = Append(created, entity_out)
                        /\ last' = EResp("create_entity", 201, "", body, entities,
                                         Some(entity_out), TRUE)
    /\ UNCHANGED <<users, now, issued, deleted, reqs>>

\* GET /examples/{entity_id}
GetEntity(entity_id) ==
    /\ IF ~IsUuid(entity_id)
       THEN last' = EResp("get_entity", 422, "validation", entity_id, entities, NoneV, FALSE)
       ELSE \E entity \in First(EntityById(entities, entity_id)) :
              IF entity = NoneV
              THEN last' = EResp("get_entity", 404, "not found", entity_id, entities, NoneV, FALSE)
              ELSE last' = EResp("get_entity", 200, "", entity_id, entities,
                                 Some(ExampleEntityOut(The(entity))), FALSE)
    /\ UNCHANGED <<users, nextId, now, issued, deleted, entities, created, reqs>>

\* PATCH /examples/{entity_id}: validation, then the lookup
UpdateEntityLookup(s, entity_id, payload) ==
    /\ reqs[s] = Idle
    /\ LET input == [entity_id |-> entity_id, payload |-> payload]
       IN  IF ~IsUuid(entity_id) \/ ~ExampleEntityUpdateOk(payload)
           THEN Finish(s, EResp("update_entity", 422, "validation", input, entities, NoneV, FALSE))
           ELSE \E entity \in First(EntityById(entities, entity_id)) :
                  IF entity = NoneV
                  THEN Finish(s, EResp("update_entity", 404, "not found", input, entities,
                                       NoneV, FALSE))
                  ELSE Continue(s, [op |-> "update_entity", pc |-> "commit",
                                    input |-> input, pre |-> entities,
                                    entity |-> The(entity),
                                    update_data |-> ExampleEntityUpdateDump(payload),
                                    wrote |-> FALSE])
    /\ UNCHANGED <<users, nextId, now, issued, deleted, entities, created>>

\* update_entity writing its loaded copy back when the row is gone
UpdateEntityCommitUpsert(s) ==
    /\ reqs[s].op = "update_entity"
    /\ reqs[s].pc = "commit"
    /\ LET r == reqs[s]
           dirty == EntityDirty(r.entity, r.update_data)
           rows == EntityById(entities, r.entity.id)
       IN  IF dirty = {}
           THEN /\ entities' = entities
                /\ Continue(s, [r EXCEPT !.pc = "refresh"])
           ELSE IF EntityNullWritten(r.update_data, dirty)
           THEN /\ entities' = entities
                /\ Finish(s, EResp("update_entity", 409, "NotNullViolation", r.input,
                                   r.pre, NoneV, FALSE))
           ELSE /\ entities' = (entities \ rows)
                                  \cup {EntityUpdated(r.entity, r.update_data, dirty)}
                /\ Continue(s, [r EXCEPT !.pc = "refresh", !.wrote = TRUE,
                                         !.entity = EntityUpdated(r.entity,
                                                        r.update_data, dirty)])
    /\ UNCHANGED <<users, nextId, now, issued, deleted, created>>

\* setattr for each dumped field, then commit: the UPDATE of the dirty
\* columns; IntegrityError -> rollback, 409; any other exception -> rollback, 500
UpdateEntityCommit(s) ==
    /\ reqs[s].op = "update_entity"
    /\ reqs[s].pc = "commit"
    /\ LET r == reqs[s]
           dirty == EntityDirty(r.entity, r.update_data)
           rows == EntityById(entities, r.entity.id)
           row == CHOOSE e \in rows : TRUE
           new == EntityUpdated(row, r.update_data, dirty)
           fail(status, cause) ==
               /\ entities' = entities
               /\ Finish(s, EResp("update_entity", status, cause, r.input, r.pre,
                                  NoneV, FALSE))
       IN  IF dirty = {}
           THEN /\ entities' = entities
                /\ Continue(s, [r EXCEPT !.pc = "refresh"])
           ELSE IF rows = {}
           THEN fail(500, "StaleDataError")
           ELSE IF EntityNullWritten(r.update_data, dirty)
           THEN fail(409, "NotNullViolation")
           ELSE IF EntityInsertViolatesUnique(entities \ rows, new)
           THEN fail(409, "UniqueViolation")
           ELSE /\ entities' = (entities \ rows) \cup {new}
                /\ Continue(s, [r EXCEPT !.pc = "refresh", !.wrote = TRUE,
                                         !.entity = EntityUpdated(r.entity,
                                                        r.update_data, dirty)])
    /\ UNCHANGED <<users, nextId, now, issued, deleted, created>>

\* refresh(entity) and the response; refresh raises when the row is gone,
\* which the handler turns into rollback, 500
UpdateEntityRefresh(s) ==
    /\ reqs[s].op = "update_entity"
    /\ reqs[s].pc = "refresh"
    /\ LET r == reqs[s]
           rows == EntityById(entities, r.entity.id)
       IN  IF rows = {}
           THEN Finish(s, EResp("update_entity", 500, "InvalidRequestError", r.input,
                                r.pre, NoneV, r.wrote))
           ELSE Finish(s, EResp("update_entity", 200, "", r.input, r.pre,
                                Some(ExampleEntityOut(CHOOSE e \in rows : TRUE)),
                                r.wrote))
    /\ UNCHANGED <<users, nextId, now, issued, deleted, entities, created>>

\* DELETE /examples/{entity_id}: validation, then the lookup
DeleteEntityLookup(s, entity_id) ==
    /\ reqs[s] = Idle
    /\ IF ~IsUuid(entity_id)
       THEN Finish(s, EResp("delete_entity", 422, "validation", entity_id, entities, NoneV, FALSE))
       ELSE \E entity \in First(EntityById(entities, entity_id)) :
              IF entity = NoneV
              THEN Finish(s, EResp("delete_entity", 404, "not found", entity_id, entities,
                                   NoneV, FALSE))
              ELSE Continue(s, [op |-> "delete_entity", pc |-> "delete",
                                input |-> entity_id, pre |-> entities,
                                entity |-> The(entity)])
    /\ UNCHANGED <<users, nextId, now, issued, deleted, entities, created>>

\* delete_entity answering 204 without removing the row
DeleteEntityCommitKeeps(s) ==
    /\ reqs[s].op = "delete_entity"
    /\ reqs[s].pc = "delete"
    /\ entities' = entities
    /\ Finish(s, EResp("delete_entity", 204, "", reqs[s].input, reqs[s].pre, NoneV,
                       FALSE))
    /\ UNCHANGED <<users, nextId, now, issued, deleted, created>>

\* db_session.delete(entity), commit (a DELETE that matches no row is not an
\* error)
DeleteEntityCommit(s) ==
    /\ reqs[s].op = "delete_entity"
    /\ reqs[s].pc = "delete"
    /\ entities' = entities \ EntityById(entities, reqs[s].entity.id)
    /\ Finish(s, EResp("delete_entity", 204, "", reqs[s].input, reqs[s].pre, NoneV,
                       EntityById(entities, reqs[s].entity.id) # {}))
    /\ UNCHANGED <<users, nextId, now, issued, deleted, created>>

\* GET /examples/: the filters, the ordering, the page
ListEntities(name, is_active, page, size) ==
    /\ LET input == [name |-> name, is_active |-> is_active,
                     page |-> page, size |-> size]
       IN  IF ~PageParamsOk(page, size)
           THEN last' = EResp("list_entities", 422, "validation", input, entities, NoneV, FALSE)
           ELSE \E q \in OrderedByCreatedDesc(EntityMatches(entities, name, is_active)) :
                  last' = EResp("list_entities", 200, "", input, entities,
                                Some(paginate([i \in DOMAIN q |-> ExampleEntityOut(q[i])],
                                              page, size)), FALSE)
    /\ UNCHANGED <<users, nextId, now, issued, deleted, entities, created, reqs>>

----------------------------------------------------------------------------
(* Direct calls of the token functions *)

\* create_access_token({"sub": sub}, expires_delta)
IssueToken(sub, expires_delta) ==
    /\ LET grant == [token |-> create_access_token(Some(sub), expires_delta, now),
                     uid |-> NoneV, ttl |-> expires_delta, at |-> now]
       IN  /\ grant \in issued \/ Cardinality(issued) < MaxTokens
           /\ issued' = issued \cup {grant}
    /\ UNCHANGED <<users, nextId, now, deleted, reqs, last, entities, created>>

\* decode_access_token(token)
DecodeToken(token) ==
    /\ last' = [op |-> "decode", input |-> token, at |-> now,
                result |-> decode_access_token(token, now)]
    /\ UNCHANGED <<users, nextId, now, issued, deleted, reqs, entities, created>>

\* verify_password(plain_password, hashed_password): the value it returns,
\* or that pwd_context.verify raised
VerifyPassword(plain_password, hashed_password) ==
    /\ last' = [op |-> "verify", at |-> now,
                input |-> [plain_password |-> plain_password,
                           hashed_password |-> hashed_password],
                raised |-> VerifyRaises(hashed_password),
                result |-> IF VerifyRaises(hashed_password) THEN NoneV
                           ELSE Some(verify_password(plain_password,
                                                     hashed_password))]
    /\ UNCHANGED <<users, nextId, now, issued, deleted, reqs, entities, created>>

----------------------------------------------------------------------------
(* The accounts specification: requests are served one after the other at   *)
(* time 0; bearer requests present tokens earlier logins returned (one of   *)
(* them expired by now) and tokens nobody issued.                           *)

Quiet == \A s \in Slots : reqs[s] = Idle

\* the previous response has been delivered
Go == last = NoResp

\* ... and no request is in flight
Ready == Go /\ Quiet

RegisterBodies ==
    [username : {ann, Ann, bob}, email : {annMail, AnnMail, bobMail}, password : {pw1}]
    \cup {[username |-> tooShort, email |-> annMail, password |-> pw1],
          [username |-> ann, email |-> notMail, password |-> pw1],
          [username |-> ann, email |-> annMail, password |-> weakPw]}

Credentials ==
    [username : {ann, Ann, annMail, root}, password : {pw1, pw2}]

\* PATCH /auth/me payloads: a subset of the fields, each a value or null
UpdatePayloads ==
    {<<>>}
    \cup {[f \in {"email"} |-> v] : v \in {NoneV, Some(bobMail), Some(notMail)}}
    \cup {[f \in {"password"} |-> v] : v \in {NoneV, Some(pw2)}}
    \cup {[f \in {"is_active"} |-> v] : v \in {NoneV, Some(FALSE)}}
    \cup {[f \in {"is_superuser"} |-> v] : v \in {Some(TRUE)}}

Tokens ==
    {LoginToken(n, 0 - ACCESS_TOKEN_EXPIRE_DAYS) : n \in {root, ann, bob}}
    \cup {LoginToken(ann, 0 - ACCESS_TOKEN_EXPIRE_DAYS - 1)}
    \cup OddTokens

Next ==
    \/ Deliver
    \/ \E body \in RegisterBodies : Ready /\ RegisterStart(1, body)
    \/ Go /\ RegisterCheckEmail(1)
    \/ Go /\ RegisterCommit(1)
    \/ \E credentials \in Credentials : Ready /\ Login(credentials, FALSE)
    \/ \E token \in Tokens : Ready /\ GetMe(token)
    \/ \E credentials \in Credentials, admin_only \in BOOLEAN :
          Ready /\ BasicRequest(credentials, admin_only)
    \/ \E token \in Tokens, payload \in UpdatePayloads :
          Ready /\ UpdateMeGate(1, token, payload)
    \/ Go /\ UpdateMeCommit(1)
    \/ \E token \in Tokens : Ready /\ ListUsersGate(1, token)
    \/ Go /\ ListUsersQuery(1)
    \/ \E token \in Tokens, user_id \in Ids : Ready /\ DeleteUserGate(1, token, user_id)
    \/ Go /\ DeleteUserLookup(1)
    \/ Go /\ DeleteUserCommit(1)

Spec == Init /\ [][Next]_vars

----------------------------------------------------------------------------
(* The token specification: create_access_token, decode_access_token and    *)
(* verify_password called directly, with every kind of expires_delta and    *)
(* of stored digest, as time passes.                                        *)

TokenDeltas == {NoneV, Some(0 - 1), Some(0), Some(1), Some(ACCESS_TOKEN_EXPIRE_DAYS)}

\* stored digests: the hashes of two passwords, a truncated hash and a hash
\* of another scheme
Digests ==
    {hash_password(p, salt) : p \in {pw1, pw2}, salt \in Salts}
    \cup {[scheme |-> "", salt |-> "s1", digest |-> <<"s1">>],
          [scheme |-> "md5", salt |-> "s1", digest |-> <<"s1", pw1>>]}

NextToken ==
    \/ Deliver
    \/ Go /\ Tick
    \/ \E sub \in {ann, root}, expires_delta \in TokenDeltas :
          Go /\ IssueToken(sub, expires_delta)
    \/ \E token \in {g.token : g \in issued} \cup OddTokens : Go /\ DecodeToken(token)
    \/ \E plain_password \in {pw1, pw2}, hashed_password \in Digests :
          Go /\ VerifyPassword(plain_password, hashed_password)

SpecToken == Init /\ [][NextToken]_vars

----------------------------------------------------------------------------
(* The time specification: tokens are the ones login returned, and they age *)
(* while the accounts they were issued to are changed, deleted and          *)
(* registered again.                                                        *)

TimeBodies == {[username |-> ann, email |-> annMail, password |-> pw1]}

TimeCredentials == [username : {ann}, password : {pw1}]

\* the token the administrator logged in with when the run starts
TimeAdminToken == LoginToken(root, 0)

TimePayloads ==
    {[f \in {"password"} |-> Some(pw2)], [f \in {"is_active"} |-> Some(FALSE)]}

NextTime ==
    \/ Deliver
    \/ Ready /\ Tick
    \/ \E body \in TimeBodies : Ready /\ RegisterStart(1, body)
    \/ Go /\ RegisterCheckEmail(1)
    \/ Go /\ RegisterCommit(1)
    \/ \E credentials \in TimeCredentials : Ready /\ Login(credentials, TRUE)
    \/ \E credentials \in TimeCredentials : Ready /\ BasicRequest(credentials, FALSE)
    \/ \E token \in {g.token : g \in issued} : Ready /\ DecodeToken(token)
    \/ \E token \in {g.token : g \in issued} : Ready /\ GetMe(token)
    \/ \E token \in {g.token : g \in issued}, payload \in TimePayloads :
          Ready /\ UpdateMeGate(1, token, payload)
    \/ Go /\ UpdateMeCommit(1)
    \/ \E token \in {g.token : g \in issued} \cup {TimeAdminToken}, user_id \in Ids :
          Ready /\ DeleteUserGate(1, token, user_id)
    \/ Go /\ DeleteUserLookup(1)
    \/ Go /\ DeleteUserCommit(1)

SpecTime == Init /\ [][NextTime]_vars

----------------------------------------------------------------------------
(* The concurrent specification: the register and update-self requests in  *)
(* the slots interleave at their persistence calls, and with the            *)
(* administrator's delete requests, which arrive in slot 1.                 *)

ConcBodies ==
    {[username |-> ann, email |-> annMail, password |-> pw1],
     [username |-> Ann, email |-> bobMail, password |-> pw1],
     [username |-> bob, email |-> annMail, password |-> pw1]}

ConcPayloads ==
    {[f \in {"email"} |-> Some(annMail)], [f \in {"email"} |-> Some(bobMail)]}

ConcTokens == {LoginToken(n, 0 - ACCESS_TOKEN_EXPIRE_DAYS) : n \in {root, ann}}

ConcAdminToken == LoginToken(root, 0 - ACCESS_TOKEN_EXPIRE_DAYS)

NextConc ==
    \/ Deliver
    \/ \E s \in Slots, body \in ConcBodies : Go /\ RegisterStart(s, body)
    \/ \E s \in Slots : Go /\ RegisterCheckEmail(s)
    \/ \E s \in Slots : Go /\ RegisterCommit(s)
    \/ \E s \in Slots, token \in ConcTokens, payload \in ConcPayloads :
          Go /\ UpdateMeGate(s, token, payload)
    \/ \E s \in Slots : Go /\ UpdateMeCommit(s)
    \/ \E user_id \in Ids \ {0} : Go /\ DeleteUserGate(1, ConcAdminToken, user_id)
    \/ Go /\ DeleteUserLookup(1)
    \/ Go /\ DeleteUserCommit(1)

SpecConc == Init /\ [][NextConc]_vars

----------------------------------------------------------------------------
(* The entities specification: create, read-one, update and delete requests *)
(* on /examples served one after the other, as the days pass.               *)

EntityBodies ==
    {[name |-> Some(namePadded), description |-> Some(descr)],
     <<>>,
     [name |-> Some(blank)],
     [name |-> NoneV],
     [name |-> Some(nameAb), value |-> Some(0)],
     [name |-> Some(nameAb), id |-> Some(0)]}

EntityPayloads ==
    {<<>>,
     [name |-> Some(nameBa)],
     [name |-> Some(nameAb), is_active |-> Some(FALSE)],
     [description |-> NoneV, value |-> Some(5)],
     [name |-> NoneV],
     [is_active |-> NoneV],
     [name |-> Some(blank)],
     [id |-> Some(0)],
     [created_at |-> Some(0)]}

EntityIds == Ids \cup {BadId}

\* the clock advances by a day
TickDay == Tick /\ now' = now + 1

NextEntity ==
    \/ Deliver
    \/ Ready /\ TickDay
    \/ \E body \in EntityBodies : Ready /\ CreateEntity(body)
    \/ \E entity_id \in EntityIds : Ready /\ GetEntity(entity_id)
    \/ \E entity_id \in EntityIds, payload \in EntityPayloads :
          Ready /\ UpdateEntityLookup(1, entity_id, payload)
    \/ Go /\ UpdateEntityCommit(1)
    \/ Go /\ UpdateEntityRefresh(1)
    \/ \E entity_id \in EntityIds : Ready /\ DeleteEntityLookup(1, entity_id)
    \/ Go /\ DeleteEntityCommit(1)

SpecEntity == Init /\ [][NextEntity]_vars

----------------------------------------------------------------------------
(* The deletion specification: entities are created, read, changed and      *)
(* deleted, and requests keep naming the identifiers of deleted entities;   *)
(* the bodies and payloads differ in the name and in the value.             *)

DeleteBodies ==
    {[name |-> Some(nameAb)]}
    \cup {[name |-> Some(nameAb), value |-> v] : v \in {Some(0), Some(0 - 1)}}

DeletePayloads ==
    {<<>>, [name |-> Some(nameBa)], [name |-> Some(blank)]}
    \cup {[value |-> v] : v \in {NoneV, Some(0 - 1), Some(0), Some(5)}}

NextDelete ==
    \/ Deliver
    \/ \E body \in DeleteBodies : Ready /\ CreateEntity(body)
    \/ \E entity_id \in EntityIds : Ready /\ GetEntity(entity_id)
    \/ \E entity_id \in EntityIds, payload \in DeletePayloads :
          Ready /\ UpdateEntityLookup(1, entity_id, payload)
    \/ Go /\ UpdateEntityCommit(1)
    \/ Go /\ UpdateEntityRefresh(1)
    \/ \E entity_id \in EntityIds : Ready /\ DeleteEntityLookup(1, entity_id)
    \/ Go /\ DeleteEntityCommit(1)

SpecDelete == Init /\ [][NextDelete]_vars

----------------------------------------------------------------------------
(* The listing specification: GET /examples/ under every filter, page and   *)
(* size, over the tables that create and delete requests leave.             *)

ValidEntityBodies ==
    {[name |-> Some(nameAb)],
     [name |-> Some(namePadded), description |-> Some(descr),
      value |-> Some(5), is_active |-> Some(FALSE)]}

\* list requests: the filters under the default page, and the pages and sizes
\* with and without a filter
ListRequests ==
    [name : {NoneV, Some(<<>>), Some(<<"a">>), Some(<<"a", "B">>),
             Some(<<"_">>), Some(<<"%">>)},
     is_active : {NoneV}, page : {NoneV}, size : {NoneV}]
    \cup [name : {NoneV, Some(<<"a">>)}, is_active : {Some(TRUE), Some(FALSE)},
          page : {NoneV}, size : {NoneV}]
    \cup [name : {NoneV, Some(<<"a">>)}, is_active : {NoneV},
          page : {Some(1), Some(2), Some(3)}, size : {Some(1), Some(2)}]
    \cup [name : {NoneV}, is_active : {NoneV},
          page : {Some(0), Some(1)}, size : {Some(0), Some(MaxSize), Some(MaxSize + 1)}]

NextList ==
    \/ Deliver
    \/ Ready /\ TickDay
    \/ \E body \in ValidEntityBodies : Ready /\ CreateEntity(body)
    \/ \E entity_id \in Ids : Ready /\ DeleteEntityLookup(1, entity_id)
    \/ Go /\ DeleteEntityCommit(1)
    \/ \E q \in ListRequests :
          Ready /\ ListEntities(q.name, q.is_active, q.page, q.size)

SpecList == Init /\ [][NextList]_vars

----------------------------------------------------------------------------
(* The concurrent entities specification: the /examples requests in the     *)
(* slots interleave at their persistence calls.                             *)

ConcEntityBodies == {[name |-> Some(nameAb)]}

ConcEntityPayloads == {<<>>, [name |-> Some(nameBa)], [name |-> Some(nameAb)]}

NextEntityConc ==
    \/ Deliver
    \/ \E body \in ConcEntityBodies : Go /\ CreateEntity(body)
    \/ \E entity_id \in Ids : Go /\ GetEntity(entity_id)
    \/ \E s \in Slots, entity_id \in Ids, payload \in ConcEntityPayloads :
          Go /\ UpdateEntityLookup(s, entity_id, payload)
    \/ \E s \in Slots : Go /\ UpdateEntityCommit(s)
    \/ \E s \in Slots : Go /\ UpdateEntityRefresh(s)
    \/ \E s \in Slots, entity_id \in Ids : Go /\ DeleteEntityLookup(s, entity_id)
    \/ \E s \in Slots : Go /\ DeleteEntityCommit(s)

SpecEntityConc == Init /\ [][NextEntityConc]_vars

----------------------------------------------------------------------------
(* The race specification: updates and deletes of the first entity          *)
(* interleave at their persistence calls; the update payloads are empty,    *)
(* rename the entity, or set is_active to null.                             *)

NextRace ==
    \/ Deliver
    \/ \E body \in ConcEntityBodies : Ready /\ CreateEntity(body)
    \/ \E s \in Slots, entity_id \in {1},
          payload \in {<<>>, [name |-> Some(nameBa)], [is_active |-> NoneV]} :
          Go /\ UpdateEntityLookup(s, entity_id, payload)
    \/ \E s \in Slots : Go /\ UpdateEntityCommit(s)
    \/ \E s \in Slots : Go /\ UpdateEntityRefresh(s)
    \/ \E s \in Slots, entity_id \in {1} :
          Go /\ DeleteEntityLookup(s, entity_id)
    \/ \E s \in Slots : Go /\ DeleteEntityCommit(s)

SpecRace == Init /\ [][NextRace]_vars

----------------------------------------------------------------------------
(* The session of a request: get_session opens an AsyncSession for the      *)
(* request, the handler and its dependencies issue statements, commits and  *)
(* rollbacks on it, and get_session's `async with` closes it when the       *)
(* request is torn down.  The handler is any sequence of the session calls  *)
(* the handlers make.                                                       *)

\* async_session().__aenter__: a new session, no transaction begun
SessionEnter(s) ==
    /\ reqs[s] = Idle
    /\ Continue(s, [op |-> "session", pc |-> "handler", txn |-> FALSE,
                    left_open |-> FALSE, closed |-> FALSE, exited |-> FALSE,
                    sent |-> FALSE, outcome |-> ""])
    /\ UNCHANGED <<users, nextId, now, issued, deleted, entities, created>>

\* db_session.execute / refresh / delete: the session begins a transaction
\* if none is open
SessionExecute(s) ==
    /\ reqs[s].op = "session"
    /\ reqs[s].pc = "handler"
    /\ Continue(s, [reqs[s] EXCEPT !.txn = TRUE])
    /\ UNCHANGED <<users, nextId, now, issued, deleted, entities, created>>

\* db_session.commit(): ends the transaction, or raises and leaves it open
SessionCommit(s, ok) ==
    /\ reqs[s].op = "session"
    /\ reqs[s].pc = "handler"
    /\ reqs[s].txn
    /\ Continue(s, IF ok THEN [reqs[s] EXCEPT !.txn = FALSE]
                   ELSE [reqs[s] EXCEPT !.pc = "failed"])
    /\ UNCHANGED <<users, nextId, now, issued, deleted, entities, created>>

\* `except ...: await db_session.rollback()`, before the HTTPException
SessionRollback(s) ==
    /\ reqs[s].op = "session"
    /\ reqs[s].pc = "failed"
    /\ Continue(s, [reqs[s] EXCEPT !.pc = "raising", !.txn = FALSE])
    /\ UNCHANGED <<users, nextId, now, issued, deleted, entities, created>>

\* the handler is over: it returned, raised an HTTPException (at once, or
\* from an except clause after the rollback), or let an exception escape
\* (delete_user has no try around its commit)
HandlerEnds(s, outcome) ==
    /\ reqs[s].op = "session"
    /\ \/ reqs[s].pc = "handler" /\ outcome \in {"returned", "http_error"}
       \/ reqs[s].pc = "raising" /\ outcome = "http_error"
       \/ reqs[s].pc = "failed" /\ outcome = "unhandled"
    /\ Continue(s, [reqs[s] EXCEPT !.pc = "done", !.outcome = outcome,
                                   !.left_open = reqs[s].txn])
    /\ UNCHANGED <<users, nextId, now, issued, deleted, entities, created>>

\* the end of a step of the request's end: the response tells the session's
\* state after the step and whether the request is over (torn down and
\* answered), and the slot is free once it is
SessionStep(s, step, r) ==
    /\ reqs' = [reqs EXCEPT ![s] = IF r.exited /\ r.sent THEN Idle ELSE r]
    /\ last' = [op |-> step, outcome |-> r.outcome, left_open |-> r.left_open,
                txn |-> r.txn, closed |-> r.closed, exited |-> r.exited,
                sent |-> r.sent, over |-> r.exited /\ r.sent]

\* get_session left without closing the session
SessionExitLeaves(s) ==
    /\ reqs[s].op = "session"
    /\ reqs[s].pc = "done"
    /\ ~reqs[s].exited
    /\ SessionStep(s, "teardown", [reqs[s] EXCEPT !.exited = TRUE])
    /\ UNCHANGED <<users, nextId, now, issued, deleted, entities, created>>

\* the exit of `async with async_session() as session`: close(), which
\* rolls back an open transaction and releases the connection
SessionExit(s) ==
    /\ reqs[s].op = "session"
    /\ reqs[s].pc = "done"
    /\ ~reqs[s].exited
    /\ SessionStep(s, "teardown",
                   [reqs[s] EXCEPT !.exited = TRUE, !.closed = TRUE, !.txn = FALSE])
    /\ UNCHANGED <<users, nextId, now, issued, deleted, entities, created>>

\* the response is sent.  An escaped exception passes through get_session
\* before the server answers 500; on the other paths the framework runs the
\* exit of a yield dependency before or after sending the response,
\* depending on its version.
SendResponse(s) ==
    /\ reqs[s].op = "session"
    /\ reqs[s].pc = "done"
    /\ ~reqs[s].sent
    /\ reqs[s].outcome = "unhandled" => reqs[s].exited
    /\ SessionStep(s, "response", [reqs[s] EXCEPT !.sent = TRUE])
    /\ UNCHANGED <<users, nextId, now, issued, deleted, entities, created>>

NextSession ==
    \/ Deliver
    \/ \E s \in Slots : Go /\ SessionEnter(s)
    \/ \E s \in Slots : Go /\ SessionExecute(s)
    \/ \E s \in Slots, ok \in BOOLEAN : Go /\ SessionCommit(s, ok)
    \/ \E s \in Slots : Go /\ SessionRollback(s)
    \/ \E s \in Slots, outcome \in {"returned", "http_error", "unhandled"} :
          Go /\ HandlerEnds(s, outcome)
    \/ \E s \in Slots : Go /\ SessionExit(s)
    \/ \E s \in Slots : Go /\ SendResponse(s)

SpecSession == Init /\ [][NextSession]_vars

----------------------------------------------------------------------------
(* Properties of the authorization gates *)

BearerOps == {"get_me", "update_me", "list_users", "delete_user"}
BasicOps == {"login", "basic", "basic_admin"}

\* the token the latest bearer request presented
LastToken ==
    IF last.op \in {"get_me", "list_users"} THEN last.input ELSE last.input.token

\* the signature is the key's over the claims, and the expiry has not passed
Verifies(t, at) == t.sig = <<SECRET_KEY, t.sub, t.exp>> /\ at <= t.exp

\* the stored users a token's subject names
Named(store, t) == {u \in store : Some(u.username) = t.sub}

\* C1: a bearer request ends 401 when its token does not verify or its
\* subject names no stored user, 403 when the named user is inactive, and
\* otherwise resolves to the stored user whose username is the subject.
C1_BearerGate ==
    last.op \in BearerOps =>
        LET t == LastToken
            ok == Verifies(t, last.at)
            named == Named(last.pre, t)
        IN  /\ (~ok \/ named = {}) => last.status = 401
            /\ (ok /\ named # {} /\ \A u \in named : ~u.is_active) =>
                   last.status = 403
            /\ (ok /\ \E u \in named : u.is_active) =>
                   /\ last.status # 401
                   /\ last.detail # "Inactive user account"
                   /\ last.user \in {Some(u) : u \in named}
                   /\ Cardinality(named) = 1

\* C1 witness: a verifying token whose subject names an inactive user got 403
C1_Witness ==
    /\ last.op = "get_me"
    /\ last.status = 403
    /\ Verifies(last.input, last.at)
    /\ \E u \in last.pre : Some(u.username) = last.input.sub /\ ~u.is_active

\* the users a basic credential pair names, by username or by e-mail
NamedBy(store, credentials) ==
    {u \in store : u.username = credentials.username \/ u.email = credentials.username}

\* the stored digest is the hash of the presented password
PasswordMatches(u, credentials) ==
    \E salt \in Salts : u.hashed_password = hash_password(credentials.password, salt)

\* C2: login and the basic gate look the user up by username or e-mail, end
\* 401 when nobody matches or the password is wrong, 403 only for a matching
\* inactive user whose password verifies; login returns a token otherwise.
C2_BasicGateAndLogin ==
    last.op \in BasicOps =>
        LET c == last.input
            auth == last.user # NoneV /\ PasswordMatches(The(last.user), c)
        IN  /\ last.user \in First(NamedBy(last.pre, c))
            /\ ~auth => last.status = 401
            /\ (auth /\ ~The(last.user).is_active) => last.status = 403
            /\ (last.status = 403 /\ last.detail # "Admin privileges required") =>
                   auth /\ ~The(last.user).is_active
            /\ last.op = "login" =>
                   /\ (auth /\ The(last.user).is_active) <=> last.status = 200
                   /\ last.status = 200 <=> last.body # NoneV
                   /\ last.status = 200 =>
                         /\ The(last.body).token_type = "bearer"
                         /\ The(last.body).access_token.sub =
                                Some(The(last.user).username)
                         /\ Verifies(The(last.body).access_token, last.at)

\* C2 witness: an inactive user presenting a wrong password got 401
C2_Witness ==
    /\ last.op = "login"
    /\ last.status = 401
    /\ last.user # NoneV
    /\ ~The(last.user).is_active
    /\ ~PasswordMatches(The(last.user), last.input)

\* C3: the admin endpoints run their body only for a resolved user with the
\* admin flag; a resolved user without it gets 403 and the store is unchanged.
C3_AdminEscalation ==
    /\ \A s \in Slots :
          reqs[s].op \in {"list_users", "delete_user"} => reqs[s].admin.is_superuser
    /\ (last.op \in {"list_users", "delete_user"} /\ last.user # NoneV) =>
          IF The(last.user).is_active /\ ~The(last.user).is_superuser
          THEN /\ last.status = 403
               /\ last.detail = "Admin privileges required"
               /\ users = last.pre
          ELSE last.status \in {200, 204, 404} => The(last.user).is_superuser
    /\ (last.op = "basic_admin" /\ last.user # NoneV
          /\ PasswordMatches(The(last.user), last.input)
          /\ The(last.user).is_active /\ ~The(last.user).is_superuser) =>
          last.status = 403 /\ users = last.pre

\* C3 witness: an active user without the admin flag asked to delete a stored
\* user and got 403
C3_Witness ==
    /\ last.op = "delete_user"
    /\ last.status = 403
    /\ last.user # NoneV
    /\ ~The(last.user).is_superuser
    /\ \E u \in users : u.id = last.input.user_id /\ Some(u) # last.user

----------------------------------------------------------------------------
(* Properties of registration and of admin-delete-user *)

\* C7: a registration whose username equals a stored username, letter case
\* ignored, ends 409 and leaves the users table unchanged (the rest of the
\* body being acceptable to the schema).
C7_UsernameConflict ==
    (/\ last.op = "register"
     /\ EmailOk(last.input.email)
     /\ PasswordLengthOk(last.input.password)
     /\ password_strength(last.input.password)
     /\ \E u \in last.pre : Lower(u.username) = Lower(last.input.username)) =>
        /\ last.status = 409
        /\ users = last.pre

\* C7 witness: "Ann" was refused while "ann" is stored
C7_Witness ==
    /\ last.op = "register"
    /\ last.status = 409
    /\ last.input.username = Ann
    /\ \E u \in last.pre : u.username = ann
    /\ users = last.pre

\* C8 as claimed: a registration whose e-mail equals a stored e-mail, letter
\* case ignored, under another username, ends 409 and leaves the users table
\* unchanged.
C8_EmailConflictAnyCase ==
    (/\ last.op = "register"
     /\ UserCreateOk(last.input)
     /\ \E u \in last.pre :
           /\ Lower(u.email) = Lower(last.input.email)
           /\ Lower(u.username) # Lower(last.input.username)) =>
        /\ last.status = 409
        /\ users = last.pre

\* the calling admin of the latest delete_user request, when the gate let it in
DeleteCaller ==
    IF /\ last.op = "delete_user"
       /\ last.user # NoneV
       /\ last.status # 401
       /\ ~(last.status = 403 /\ last.detail \in {"Inactive user account",
                                                   "Admin privileges required"})
    THEN last.user ELSE NoneV

\* C10: admin-delete-user on the admin's own identifier ends 403 and keeps
\* the admin; on another stored user it ends 204 and removes that user; on
\* an identifier naming no stored user, a deleted one included, it ends 404.
C10_DeleteUser ==
    /\ \A u \in users : u.id \notin deleted
    /\ DeleteCaller # NoneV =>
          LET admin == The(DeleteCaller)
              target == last.input.user_id
              found == {u \in last.pre : u.id = target}
          IN  /\ target = admin.id =>
                    /\ last.status = 403
                    /\ users = last.pre
                    /\ admin \in users
              /\ (target # admin.id /\ found # {}) =>
                    /\ last.status = 204
                    /\ users = last.pre \ found
                    /\ target \in deleted
              /\ (target # admin.id /\ found = {}) =>
                    /\ last.status = 404
                    /\ users = last.pre

\* C10 witness: a second delete of an identifier deleted before got 404
C10_Witness ==
    /\ last.op = "delete_user"
    /\ last.status = 404
    /\ last.input.user_id \in deleted

----------------------------------------------------------------------------
(* Properties of the tokens *)

\* C4 as claimed: a token issued with a zero expires_delta, or with an
\* expiry already past, decodes to None at the time of issue and ever after.
C4_ZeroTtlTokenFails ==
    last.op = "decode" =>
        \A g \in issued :
            (/\ g.token = last.input
             /\ g.ttl # NoneV
             /\ The(g.ttl) <= 0
             /\ last.at >= g.at) => last.result = NoneV

C6_NoLeak ==
    /\ (last.op \in BearerOps /\ last.status = 401) =>
          \A token \in Tokens :
              \A user \in First(BearerMatches(last.pre, token, last.at)) :
                  LET other == get_current_user(token, last.at, user)
                  IN  other.status = 401 => other.detail = last.detail
    /\ (last.op \in {"basic", "basic_admin"} /\ last.status = 401) =>
          \A credentials \in Credentials :
              \A user \in First(ByUsernameOrEmail(last.pre, credentials.username)) :
                  LET other == get_current_user_basic(credentials, user)
                  IN  other.status = 401 => other.detail = last.detail

----------------------------------------------------------------------------
(* Uniqueness under concurrency *)

\* C9: no two stored users share a username or an e-mail under any
\* interleaving; a registration is stored only when no stored row has its
\* username or e-mail at commit time, and otherwise is refused with the
\* table unchanged.
C9_UniqueUsers ==
    /\ \A u, v \in users :
          u # v => /\ u.username # v.username
                   /\ u.email # v.email
                   /\ u.id # v.id
    /\ last.op = "register" =>
          IF last.status = 201
          THEN /\ \A u \in last.pre :
                     /\ u.username # The(last.body).username
                     /\ u.email # The(last.body).email
               /\ Cardinality(users) = Cardinality(last.pre) + 1
          ELSE users = last.pre
    /\ (last.op = "register" /\ UserCreateOk(last.input)
          /\ \E u \in last.pre :
                \/ u.username = UserCreate(last.input).username
                \/ u.email = UserCreate(last.input).email) =>
          last.status = 409
    /\ last.op = "update_me" => (last.status # 200 => users = last.pre)

\* C9 witness: a registration that had passed both pre-insert checks was
\* refused at commit because a concurrent one had stored the same username
C9_Witness ==
    /\ last.op = "register"
    /\ last.status = 409
    /\ last.detail = "Username or email already exists"
    /\ \E u \in users : u.username = UserCreate(last.input).username

----------------------------------------------------------------------------
(* Properties of the example entities *)

\* C11: over every sequence of successful create requests, each returned
\* identifier differs from the identifier of every entity created before,
\* and the returned creation timestamps never decrease; the entity a
\* successful create returns is the latest of that sequence.
C11_FreshIdsAndTimestamps ==
    /\ \A i, j \in DOMAIN created :
          i < j => /\ created[i].id # created[j].id
                   /\ created[i].created_at <= created[j].created_at
    /\ (last.op = "create_entity" /\ last.status = 201) =>
          /\ created # <<>>
          /\ last.body = Some(created[Len(created)])
          /\ last.at = created[Len(created)].created_at

\* C11 witness: a create succeeded on a later day than an earlier create
\* whose entity has been deleted since
C11_Witness ==
    /\ last.op = "create_entity"
    /\ last.status = 201
    /\ Len(created) >= 2
    /\ created[1].created_at < created[Len(created)].created_at
    /\ created[1].id \notin {e.id : e \in entities}

\* C12 as claimed: create and partial update answer 409 exactly when the
\* persistence failure is a uniqueness violation and 500 for every other
\* persistence failure, a not-null violation included; either way the table
\* is as it was before the request.
C12_ConflictOnlyOnUnique ==
    (last.op \in {"create_entity", "update_entity"} /\ last.status \in {409, 500}) =>
        /\ last.status = 409 <=> last.cause = "UniqueViolation"
        /\ entities = last.pre

\* the stored entity an update request names, in a table
Target(store) == {e \in store : e.id = last.input.entity_id}

\* C13: a successful partial update sets exactly the fields present in the
\* payload to the payload's values and leaves every other field and every
\* other entity as they were; an empty payload on a stored entity succeeds,
\* changes nothing and returns the entity as stored.
C13_PartialUpdateFrame ==
    last.op = "update_entity" =>
        LET payload == last.input.payload
        IN  /\ last.status = 200 =>
                 /\ Cardinality(Target(last.pre)) = 1
                 /\ Cardinality(Target(entities)) = 1
                 /\ entities \ Target(entities) = last.pre \ Target(last.pre)
                 /\ \A old \in Target(last.pre), new \in Target(entities) :
                       /\ last.body = Some(new)
                       /\ \A f \in DOMAIN new :
                             IF f \notin DOMAIN payload
                             THEN new[f] = old[f]
                             ELSE IF f \in {"name", "is_active"}
                             THEN \A v \in payload[f] :
                                     new[f] = IF f = "name" THEN Strip(v) ELSE v
                             ELSE new[f] = payload[f]
            /\ (payload = <<>> /\ Target(last.pre) # {}) =>
                 /\ last.status = 200
                 /\ entities = last.pre
                 /\ last.body \in {Some(e) : e \in Target(last.pre)}

\* C13 witness: an update naming description and value changed them and kept
\* the name and the active flag
C13_Witness ==
    /\ last.op = "update_entity"
    /\ last.status = 200
    /\ DOMAIN last.input.payload = {"description", "value"}
    /\ \E old \in Target(last.pre), new \in Target(entities) :
          /\ new.description # old.description
          /\ new.name = old.name
          /\ new.is_active = old.is_active

\* C14 as claimed: a mutating request that ends with an error response has
\* written nothing: the users table is as it was, and the /examples request
\* committed no write that another request could observe.
C14_AllOrNothing ==
    /\ (last.op \in {"register", "update_me", "delete_user"} /\ last.status >= 400) =>
          users = last.pre
    /\ (last.op \in {"create_entity", "update_entity", "delete_entity"}
          /\ last.status >= 400) =>
          ~last.wrote

\* the identifier a read-one, update or delete response was asked about
Asked ==
    IF last.op = "update_entity" THEN last.input.entity_id ELSE last.input

\* a read-one, update or delete response to a request that passed validation
LookedUp ==
    /\ last.op \in {"get_entity", "update_entity", "delete_entity"}
    /\ last.status # 422

\* C15: read-one with a well-formed identifier answers 404 exactly when no
\* entity with that identifier is stored and otherwise 200 with that entity's
\* representation; once a delete of an identifier has answered 204, every
\* later read-one, update and delete that passes validation and names that
\* identifier answers 404.
C15_NotFoundAfterDelete ==
    /\ [](last.op = "get_entity" /\ IsUuid(last.input) =>
            /\ last.status = 404 <=> ~\E e \in entities : e.id = last.input
            /\ last.status # 404 =>
                  /\ last.status = 200
                  /\ \E e \in entities : e.id = last.input /\ last.body = Some(e))
    /\ \A x \in Ids :
          []((last.op = "delete_entity" /\ last.status = 204 /\ last.input = x) =>
                [](last = NoResp =>
                      [](LookedUp /\ Asked = x => last.status = 404)))

\* C15 witness: an update with a valid payload named an entity that was
\* created and deleted before, and was answered 404
C15_Witness ==
    /\ last.op = "update_entity"
    /\ last.status = 404
    /\ last.input.payload # <<>>
    /\ \E i \in DOMAIN created : created[i].id = Asked

\* C16: every stored entity has the identifier and the creation timestamp it
\* was created with, whatever create, update and delete requests were served
\* since, and no two stored entities share an identifier.
C16_IdentityImmutable ==
    /\ \A e \in entities :
          \E i \in DOMAIN created :
             created[i].id = e.id /\ created[i].created_at = e.created_at
    /\ \A e, f \in entities : e.id = f.id => e = f

\* C16 witness: an update on a later day than the creation changed the
\* entity, which kept its identifier and creation timestamp
C16_Witness ==
    /\ last.op = "update_entity"
    /\ last.status = 200
    /\ last.wrote
    /\ \E old \in Target(last.pre), new \in Target(entities) :
          /\ new # old
          /\ new.id = old.id
          /\ new.created_at = old.created_at
          /\ new.created_at < last.at

\* does s start with the characters of f, letter case ignored
StartsWith(f, s) ==
    /\ Len(f) <= Len(s)
    /\ Lower(SubSeq(s, 1, Len(f))) = Lower(f)

\* does s contain f as a literal substring, letter case ignored
Contains(f, s) ==
    \E k \in 0 .. Len(s) : StartsWith(f, SubSeq(s, k + 1, Len(s)))

\* the stored entities a list request asks for, as claimed
Filtered(store, name, is_active) ==
    {e \in store :
        /\ name # NoneV => Contains(The(name), e.name)
        /\ is_active # NoneV => e.is_active = The(is_active)}

\* C17 as claimed: a list response holds exactly the stored entities whose
\* name contains the name filter as a literal substring, letter case
\* ignored, and whose active flag equals the is_active filter; an absent
\* filter selects everything.
C17_LiteralFilter ==
    (last.op = "list_entities" /\ last.status = 200
        /\ last.input.page = NoneV /\ last.input.size = NoneV) =>
        LET page == The(last.body)
            asked == Filtered(last.pre, last.input.name, last.input.is_active)
        IN  /\ page.total = Cardinality(asked)
            /\ {page.items[i] : i \in DOMAIN page.items} = asked

\* C18 as claimed: the items of a list response are sorted by creation time,
\* latest first, and items with equal creation time by ascending identifier,
\* so the order of a response is determined by the table and the filters.
C18_TotalOrder ==
    (last.op = "list_entities" /\ last.status = 200) =>
        LET items == The(last.body).items
        IN  \A i, j \in DOMAIN items :
               i < j =>
                  \/ items[i].created_at > items[j].created_at
                  \/ /\ items[i].created_at = items[j].created_at
                     /\ items[i].id < items[j].id

\* the number of items on page p of size s of a sequence of n items
OnPage(n, p, s) ==
    IF n <= (p - 1) * s THEN 0
    ELSE IF n >= p * s THEN s
    ELSE n - (p - 1) * s

\* C19: a list request is rejected exactly when its page is below 1 or its
\* size outside 1..100; otherwise, with p and s the page and size asked for
\* (1 and 50 when omitted), the response reports p, s and the size of the
\* whole filtered set as total, and its items are those at the zero-based
\* positions (p-1)*s .. p*s-1 of the filtered set in its order, fewer when
\* the set ends earlier.
C19_Pagination ==
    last.op = "list_entities" =>
        LET in == last.input
            p == IF in.page = NoneV THEN 1 ELSE The(in.page)
            s == IF in.size = NoneV THEN 50 ELSE The(in.size)
            set == EntityMatches(last.pre, in.name, in.is_active)
        IN  /\ last.status = 422 <=> (p < 1 \/ s < 1 \/ s > 100)
            /\ last.status # 422 =>
                  /\ last.status = 200
                  /\ The(last.body).page = p
                  /\ The(last.body).size = s
                  /\ The(last.body).total = Cardinality(set)
                  /\ Len(The(last.body).items) = OnPage(Cardinality(set), p, s)
                  /\ \E q \in OrderedByCreatedDesc(set) :
                        \A k \in DOMAIN The(last.body).items :
                           The(last.body).items[k] = q[(p - 1) * s + k]

\* C19 witness: the second page of size 1 of a set of two entities holds one
\* item, the older entity, and reports the total 2
C19_Witness ==
    /\ last.op = "list_entities"
    /\ last.status = 200
    /\ last.input.page = Some(2)
    /\ last.input.size = Some(1)
    /\ The(last.body).total = 2
    /\ Len(The(last.body).items) = 1
    /\ \E e \in last.pre : e.created_at > The(last.body).items[1].created_at

\* C20 as claimed: a request whose body, payload or identifier fails
\* validation is answered 422 with no row read and no table changed, on the
\* open endpoints and on the ones behind the bearer gate alike.
C20_ValidationFirst ==
    /\ (last.op = "register" /\ ~UserCreateOk(last.input)) =>
          /\ last.status = 422
          /\ users = last.pre
    /\ (last.op = "update_me" /\ ~UserUpdateOk(last.input.payload)) =>
          /\ last.status = 422
          /\ last.user = NoneV
          /\ users = last.pre
    /\ (last.op = "create_entity" /\ ~ExampleEntityInOk(last.input)) =>
          /\ last.status = 422
          /\ entities = last.pre
    /\ (last.op \in {"get_entity", "delete_entity"} /\ ~IsUuid(last.input)) =>
          /\ last.status = 422
          /\ entities = last.pre
    /\ (last.op = "update_entity"
          /\ (~IsUuid(last.input.entity_id)
                \/ ~ExampleEntityUpdateOk(last.input.payload))) =>
          /\ last.status = 422
          /\ entities = last.pre

\* a body or payload with one field taken out
Without(body, field) == [f \in DOMAIN body \ {field} |-> body[f]]

\* the body of a create response or the payload of an update response
Sent == IF last.op = "update_entity" THEN last.input.payload ELSE last.input

\* would the request pass validation if its value field were left out
RestValid ==
    IF last.op = "update_entity"
    THEN IsUuid(last.input.entity_id)
            /\ ExampleEntityUpdateOk(Without(Sent, "value"))
    ELSE ExampleEntityInOk(Without(Sent, "value"))

\* C21 as claimed: create and partial update reject a payload whose value is
\* below 0, and accept a payload, valid in its other fields, whose value is
\* absent, null or any number from 0 upwards, 0 itself included.
C21_ValueNonNegative ==
    last.op \in {"create_entity", "update_entity"} =>
        /\ ("value" \in DOMAIN Sent /\ \E v \in Sent["value"] : v < 0) =>
              last.status = 422
        /\ (RestValid /\ ("value" \in DOMAIN Sent => \A v \in Sent["value"] : v >= 0)) =>
              last.status # 422

----------------------------------------------------------------------------
(* Properties of the password hasher and of the stored accounts *)

\* C22 as claimed: verify_password never raises; it returns true for a
\* password and the hash of that password, false for a password and the hash
\* of another password, and false for a digest that is malformed or of an
\* unrecognised scheme.
C22_VerifyNeverRaises ==
    last.op = "verify" =>
        LET p == last.input.plain_password
            d == last.input.hashed_password
        IN  /\ ~last.raised
            /\ last.result =
                  Some(\E salt \in Salts : d = hash_password(p, salt))

\* the user representations a response carries
Shown ==
    IF last.body = NoneV THEN {}
    ELSE IF last.op = "list_users" THEN The(last.body)
    ELSE {The(last.body)}

\* is h the output of hash_password for the plaintext p
HashOf(h, p) == \E salt \in Salts : h = hash_password(p, salt)

\* C23: the stored password field of every user is an output of
\* hash_password: of the password sent at registration, and after an
\* update-self that changed the password, of the new password; no response
\* of register, get-self, update-self or admin-list-users has a field for the
\* password or the stored hash.
C23_PasswordStoredHashed ==
    /\ \A u \in users : \E p \in {pw1, pw2} : HashOf(u.hashed_password, p)
    /\ (last.op = "register" /\ last.status = 201) =>
          \E u \in users \ last.pre : HashOf(u.hashed_password, last.input.password)
    /\ (last.op = "update_me" /\ last.status = 200
          /\ "password" \in DOMAIN last.input.payload) =>
          \E u \in users :
             /\ u.id = The(last.user).id
             /\ HashOf(u.hashed_password, The(last.input.payload["password"]))
    /\ last.op \in {"register", "get_me", "update_me", "list_users"} =>
          \A out \in Shown :
             DOMAIN out \cap {"password", "hashed_password"} = {}

\* C23 witness: update-self changed the password, and the response shows the
\* user
C23_Witness ==
    /\ last.op = "update_me"
    /\ last.status = 200
    /\ "password" \in DOMAIN last.input.payload
    /\ Shown # {}
    /\ \E u \in users, old \in last.pre :
          u.id = old.id /\ u.hashed_password # old.hashed_password

C25_TokenBoundToRecord ==
    (last.op \in {"get_me", "update_me"} /\ last.user # NoneV) =>
        \E g \in issued :
           /\ g.token = LastToken
           /\ g.uid = Some(The(last.user).id)

\* C26: the admin flag is set on the administrator the system starts with
\* and on nobody else, whatever requests were served: register creates users
\* with the flag unset and shows it unset, and no request changes the flag of
\* a stored user.
C26_NoEscalation ==
    /\ \A u \in users : u.is_superuser <=> u.id = adminRow.id
    /\ (last.op = "register" /\ last.status = 201) =>
          ~The(last.body).is_superuser
    /\ (last.op = "update_me" /\ "is_superuser" \in DOMAIN last.input.payload) =>
          last.status # 200

\* C26 witness: a registered user changed their own account, and the flag
\* is still unset
C26_Witness ==
    /\ last.op = "update_me"
    /\ last.status = 200
    /\ users # last.pre
    /\ The(last.user).id # adminRow.id
    /\ \E u \in users : u.id = The(last.user).id /\ ~u.is_superuser

\* the stored users the latest request's credentials are correct for: the
\* password matches, or the token verifies and names the user
Authenticated ==
    IF last.op \in BasicOps
    THEN {u \in NamedBy(last.pre, last.input) : PasswordMatches(u, last.input)}
    ELSE IF last.op \in BearerOps /\ Verifies(LastToken, last.at)
    THEN Named(last.pre, LastToken)
    ELSE {}

\* what login answers to the credentials (key, p) over the stored users
LoginStatuses(key, p) ==
    {login_check([username |-> key, password |-> p], user).status :
        user \in First(ByUsernameOrEmail(users, key))}

\* C27 as claimed: the active flag of a stored user never goes from false
\* back to true, and once a login with a user's username and password is
\* answered 403 (the account is inactive), it is answered 403 from then on.
C27_DeactivationAbsorbing ==
    /\ [][\A u \in users, v \in users' :
             (u.id = v.id /\ ~u.is_active) => ~v.is_active]_vars
    /\ [][\A c \in TimeCredentials :
             LoginStatuses(c.username, c.password) = {403} =>
                LoginStatuses(c.username, c.password)' = {403}]_vars

\* C27, amended: no request sets the active flag of a stored user back to
\* true, and while an inactive user is stored every login, basic-gated and
\* bearer-gated request with that user's correct credentials ends with 403.
C27_InactiveForbidden ==
    /\ [][\A u \in users, v \in users' :
             (u.id = v.id /\ ~u.is_active) => ~v.is_active]_vars
    /\ [](last.op \in BasicOps \cup BearerOps =>
             \A u \in Authenticated : ~u.is_active => last.status = 403)

\* C27 witness: a user who deactivated the account logged in with the right
\* password and got 403
C27_Witness ==
    /\ last.op = "login"
    /\ last.status = 403
    /\ \E u \in Authenticated : ~u.is_active /\ u.id # adminRow.id

\* C28: when register has answered 201 to (username u, email e, password p),
\* login with exactly u and p, and login with e and p, answer 200.
C28_RegisterLoginRoundTrip ==
    (last.op = "register" /\ last.status = 201) =>
        /\ LoginStatuses(last.input.username, last.input.password) = {200}
        /\ LoginStatuses(last.input.email, last.input.password) = {200}

\* C28 restricted to usernames without upper-case letters and e-mail
\* addresses whose domain has none
C28_RoundTripLowerCase ==
    (/\ last.op = "register"
     /\ last.status = 201
     /\ last.input.username = Lower(last.input.username)
     /\ last.input.email = EmailStr(last.input.email)) =>
        /\ LoginStatuses(last.input.username, last.input.password) = {200}
        /\ LoginStatuses(last.input.email, last.input.password) = {200}

\* the identifiers of the stored entities
StoredIds == {e.id : e \in entities}

\* the identifiers of the entities created so far
CreatedIds == {created[i].id : i \in DOMAIN created}

SetsRequiredToNull(payload) ==
    \E f \in DOMAIN payload \ EntityNullable :
       f \in EntityFields /\ payload[f] = NoneV

\* C30: every stored entity has a name and an active flag that are not null;
\* an update whose payload sets name or is_active to null ends with an error
\* response and leaves the stored entities as they were.
C30_RequiredNeverNull ==
    /\ \A e \in entities :
          /\ EntityLoaded(e).name # NoneV
          /\ EntityLoaded(e).is_active # NoneV
          /\ e.is_active \in BOOLEAN
    /\ (last.op = "update_entity" /\ SetsRequiredToNull(last.input.payload)) =>
          /\ last.status >= 400
          /\ entities = last.pre
          /\ ~last.wrote

\* C30 witness: an update setting is_active to null named a stored entity,
\* was refused, and the entity is stored as before
C30_Witness ==
    /\ last.op = "update_entity"
    /\ "is_active" \in DOMAIN last.input.payload
    /\ last.input.payload["is_active"] = NoneV
    /\ last.status = 409
    /\ Target(entities) # {}
    /\ Target(entities) = Target(last.pre)

====
